---- MODULE Spec2Model ----
(***************************************************************************)
(* Duplex audio relay of python-service: WebSocketHandler                   *)
(* (websocket_handlers.py) and GeminiAudioManager (gemini_manager.py).      *)
(*                                                                          *)
(* One step of the model is one stretch of a coroutine between two awaits:  *)
(* asyncio runs such a stretch atomically and may switch to another         *)
(* coroutine at every await.  The client, the transport and the remote      *)
(* Gemini session are the environment.  Timestamps (datetime.now()) and     *)
(* log output are not modelled.  Task cancellation (CancelledError, a       *)
(* BaseException) is not modelled: every failure is an Exception.           *)
(***************************************************************************)
EXTENDS Naturals, Sequences, FiniteSets

\* ------------------------------------------------------------------ bounds
MaxConns == 2        \* connections accepted during a run
MaxIds == 2          \* distinct host:port endpoints
MaxInputs == 3       \* connections accepted, frames sent by the clients and
                     \* responses of the remote sessions, all together
MaxFiles == 3        \* files in a batch given to process_multiple_files

Conns == 1 .. MaxConns
Ids == 1 .. MaxIds

NoId == 0
NoData == << >>

\* ------------------------------------------------------------------ data
\* Text payloads a client may send, and what json.loads makes of them.
TextPing == "{\"type\": \"ping\"}"
TextOther == "{\"type\": \"hello\"}"
TextNoType == "{}"
TextList == "[1]"
TextBad == "not json"

Texts == {TextPing, TextOther, TextNoType, TextList, TextBad}

\* json.loads: raises JSONDecodeError on an unparseable text; otherwise the
\* parsed value, here its shape (dict or not) and its "type" member.
JsonLoads(text) ==
    CASE text = TextPing   -> [decoded |-> TRUE, isDict |-> TRUE, type |-> "ping"]
      [] text = TextOther  -> [decoded |-> TRUE, isDict |-> TRUE, type |-> "hello"]
      [] text = TextNoType -> [decoded |-> TRUE, isDict |-> TRUE, type |-> "None"]
      [] text = TextList   -> [decoded |-> TRUE, isDict |-> FALSE, type |-> "None"]
      [] OTHER             -> [decoded |-> FALSE, isDict |-> FALSE, type |-> "None"]

\* ASGI messages delivered by websocket.receive().
BytesFrame(d) == [bytes |-> d, text |-> ""]
TextFrame(t) == [bytes |-> NoData, text |-> t]
IsBytes(m) == m.text = ""

AudioPayloads == {<<1, 2>>, <<7>>}
ClientFrames == {BytesFrame(d) : d \in AudioPayloads} \cup {TextFrame(t) : t \in Texts}

\* What receive_responses yields, and the responses that yield nothing.
Event(ty, d, tx, i, t) ==
    [type |-> ty, data |-> d, text |-> tx, interrupted |-> i, turn_complete |-> t]
NoEvent == Event("none", NoData, "", FALSE, FALSE)
RemoteEvents ==
    { Event("audio", <<1, 2>>, "", FALSE, TRUE),
      Event("audio", <<7>>, "", TRUE, FALSE),
      Event("text", NoData, "hi", FALSE, TRUE),
      Event("unhandled", NoData, "", FALSE, FALSE) }

\* One call of websocket.send_bytes / websocket.send_json: what was handed to
\* the transport and whether the transport took it (ok).
Sent(k, d, n, tx, i, t, ok) ==
    [kind |-> k, data |-> d, bytes |-> n, text |-> tx,
     interrupted |-> i, turn_complete |-> t, ok |-> ok]
Envelope(k, ok) == Sent(k, NoData, 0, "", FALSE, FALSE, ok)

\* ------------------------------------------------------------------ state
VARIABLES
    active_connections,  \* WebSocketHandler.active_connections: id -> websocket
    pc,                  \* handle_connection: where each connection's handler is
    client_id,           \* handle_connection: client_id of each connection
    open,                \* transport: the client side is still connected
    inbox,               \* transport: frames sent by the client, not yet received
    c2g,                 \* _forward_client_to_gemini: position
    c2gData,             \* _forward_client_to_gemini: audio_data being sent
    g2c,                 \* _forward_gemini_to_client: position
    response,            \* _forward_gemini_to_client: response being forwarded
    session,             \* GeminiAudioManager.session is not None
    is_connected,        \* GeminiAudioManager.is_connected
    out,                 \* transport: the handler's send calls, in order
    remoteIn,            \* remote session: audio received by send_realtime_input
    yielded,             \* receive_responses: the events yielded so far
    disconnects,         \* number of calls of session_manager.disconnect()
    unregisterMiss,      \* the handler's teardown found its id absent from the registry
    escaped,             \* an exception left handle_connection
    connected,           \* outcome of session_manager.connect()
    received,            \* the frames websocket.receive() has returned
    nframes,             \* frames sent by the clients so far
    nevents,             \* responses received from the remote sessions so far
    calls,               \* calls made on a GeminiAudioManager directly, in order
    files,               \* process_multiple_files: the batch it was given
    documents,           \* process_multiple_files: the results appended so far
    summary,             \* process_multiple_files: the running summary
    returned             \* process_multiple_files: the value returned, if any

vars == << active_connections, pc, client_id, open, inbox, c2g, c2gData, g2c,
           response, session, is_connected, out, remoteIn, yielded,
           disconnects, unregisterMiss, escaped, connected, received,
           nframes, nevents, calls, files, documents, summary, returned >>

extractorVars == << files, documents, summary, returned >>

\* ------------------------------------------------------------------ registry
\* The registry is replaced by the one new entry.
RegisterOnly(reg, id, ws) ==
    [k \in {id} |-> ws]

\* self.active_connections[client_id] = websocket
Register(reg, id, ws) ==
    [k \in DOMAIN reg \cup {id} |-> IF k = id THEN ws ELSE reg[k]]

\* del without the membership test: KeyError on an absent id.
UnregisterUnguarded(reg, id) ==
    [registry |-> [k \in DOMAIN reg \ {id} |-> reg[k]],
     raised |-> id \notin DOMAIN reg]

\* The entry is left in the registry.
UnregisterKeep(reg, id) == [registry |-> reg, raised |-> FALSE]

\* if client_id in self.active_connections: del self.active_connections[client_id]
Unregister(reg, id) ==
    [registry |-> [k \in DOMAIN reg \ {id} |-> reg[k]], raised |-> FALSE]

\* ------------------------------------------------------------------ manager
\* disconnect() lets the error of session.__aexit__ out to its caller.
ManagerDisconnectReraise(hasSession, isConnected, aexitRaises) ==
    IF hasSession /\ aexitRaises
    THEN [session |-> hasSession, is_connected |-> isConnected, raised |-> TRUE]
    ELSE [session |-> FALSE, is_connected |-> FALSE, raised |-> FALSE]

\* disconnect(): when session.__aexit__ raises, the error is logged, the
\* manager is left as it was and disconnect() returns; it never raises.
ManagerDisconnect(hasSession, isConnected, aexitRaises) ==
    IF hasSession /\ aexitRaises
    THEN [session |-> hasSession, is_connected |-> isConnected, raised |-> FALSE]
    ELSE [session |-> FALSE, is_connected |-> FALSE, raised |-> FALSE]

\* ------------------------------------------------------------------ states
LoopDone(p) == p \in {"disconnected", "failed", "ended", "raised", "send_failed"}

\* The lifecycle state of section 4.2 of a connection's handler.
ConnState(c) ==
    CASE pc[c] = "new" -> "NONE"
      [] pc[c] \in {"connect", "send_established", "send_error"} -> "CONNECTING"
      [] pc[c] = "gather" -> "ACTIVE"
      [] pc[c] = "disconnect" -> "CLOSING"
      [] OTHER -> "CLOSED"

\* What the environment has fed the relay so far.
Inputs == Cardinality({c \in Conns : pc[c] # "new"}) + nframes + nevents

\* The summary process_multiple_files starts from.
NewSummary(fs) ==
    [total |-> Len(fs), successful |-> 0, failed |-> 0, formats_processed |-> << >>]

NoResult == [success |-> FALSE, documents |-> << >>, summary |-> NewSummary(<< >>),
             none |-> TRUE]

\* A WebSocketHandler with no connection yet.
HandlerInit ==
    /\ active_connections = << >>
    /\ pc = [c \in Conns |-> "new"]
    /\ client_id = [c \in Conns |-> NoId]
    /\ open = [c \in Conns |-> FALSE]
    /\ inbox = [c \in Conns |-> << >>]
    /\ c2g = [c \in Conns |-> "idle"]
    /\ c2gData = [c \in Conns |-> NoData]
    /\ g2c = [c \in Conns |-> "idle"]
    /\ response = [c \in Conns |-> NoEvent]
    /\ session = [c \in Conns |-> FALSE]
    /\ is_connected = [c \in Conns |-> FALSE]
    /\ out = [c \in Conns |-> << >>]
    /\ remoteIn = [c \in Conns |-> << >>]
    /\ yielded = [c \in Conns |-> << >>]
    /\ disconnects = [c \in Conns |-> 0]
    /\ unregisterMiss = [c \in Conns |-> FALSE]
    /\ escaped = [c \in Conns |-> FALSE]
    /\ connected = [c \in Conns |-> "pending"]
    /\ received = [c \in Conns |-> << >>]
    /\ calls = << >>
    /\ nframes = 0
    /\ nevents = 0

Init ==
    /\ HandlerInit
    /\ files = << >>
    /\ documents = << >>
    /\ summary = NewSummary(<< >>)
    /\ returned = NoResult

\* ------------------------------------------------------------------ handler
\* The finally block after disconnect() has returned: the registry entry is
\* deleted and handle_connection returns; the server then closes the transport.
Finish(c) ==
    LET u == Unregister(active_connections, client_id[c]) IN
    /\ active_connections' = u.registry
    /\ escaped' = [escaped EXCEPT ![c] = u.raised]
    /\ unregisterMiss' =
           [unregisterMiss EXCEPT ![c] = client_id[c] \notin DOMAIN active_connections]
    /\ pc' = [pc EXCEPT ![c] = "done"]
    /\ open' = [open EXCEPT ![c] = FALSE]

\* An exception raised in the finally block leaves handle_connection: the
\* rest of the block is skipped; the server then closes the transport.
Escape(c) ==
    /\ escaped' = [escaped EXCEPT ![c] = TRUE]
    /\ pc' = [pc EXCEPT ![c] = "done"]
    /\ open' = [open EXCEPT ![c] = FALSE]
    /\ UNCHANGED << active_connections, unregisterMiss >>

\* The finally block calls disconnect() only after a session was established.
EnterFinallySkipping(c) ==
    IF session[c]
    THEN /\ disconnects' = [disconnects EXCEPT ![c] = @ + 1]
         /\ pc' = [pc EXCEPT ![c] = "disconnect"]
         /\ UNCHANGED << active_connections, escaped, unregisterMiss, open,
                         session, is_connected >>
    ELSE /\ Finish(c)
         /\ UNCHANGED << disconnects, session, is_connected >>

\* finally: await session_manager.disconnect().  With a session the call
\* suspends in session.__aexit__; without one it returns at once and the
\* handler goes on to delete its registry entry.
EnterFinally(c) ==
    /\ disconnects' = [disconnects EXCEPT ![c] = @ + 1]
    /\ IF session[c]
       THEN /\ pc' = [pc EXCEPT ![c] = "disconnect"]
            /\ UNCHANGED << active_connections, escaped, unregisterMiss, open,
                            session, is_connected >>
       ELSE LET m == ManagerDisconnect(session[c], is_connected[c], FALSE) IN
            /\ session' = [session EXCEPT ![c] = m.session]
            /\ is_connected' = [is_connected EXCEPT ![c] = m.is_connected]
            /\ IF m.raised THEN Escape(c) ELSE Finish(c)

\* await websocket.accept(); the connection is registered under host:port and
\* its GeminiAudioManager is created; the handler then awaits connect().
\* Connections are numbered in the order they are accepted, and so are the
\* endpoints in the order they first connect; two transports that are both
\* open never have the same remote host:port.
Accept(c, id) ==
    /\ pc[c] = "new"
    /\ Inputs < MaxInputs
    /\ \A d \in Conns : d < c => pc[d] # "new"
    /\ \A d \in Conns : client_id[d] = id => ~open[d]
    /\ \A k \in Ids : k < id => \E d \in Conns : client_id[d] = k
    /\ pc' = [pc EXCEPT ![c] = "connect"]
    /\ client_id' = [client_id EXCEPT ![c] = id]
    /\ open' = [open EXCEPT ![c] = TRUE]
    /\ active_connections' = Register(active_connections, id, c)
    /\ UNCHANGED << extractorVars, calls, connected, received,
                    inbox, c2g, c2gData, g2c, response, session, is_connected, out,
                    remoteIn, yielded, disconnects, unregisterMiss, escaped,
                    nframes, nevents >>

\* connect() returns: session and is_connected are set.
ConnectOk(c) ==
    /\ pc[c] = "connect"
    /\ session' = [session EXCEPT ![c] = TRUE]
    /\ is_connected' = [is_connected EXCEPT ![c] = TRUE]
    /\ connected' = [connected EXCEPT ![c] = "ok"]
    /\ pc' = [pc EXCEPT ![c] = "send_established"]
    /\ UNCHANGED << extractorVars, calls, received,
                    active_connections, client_id, open, inbox, c2g, c2gData, g2c,
                    response, out, remoteIn, yielded, disconnects, unregisterMiss,
                    escaped, nframes, nevents >>

\* connect() raises: the manager is unchanged, the handler enters its except
\* block and awaits the sending of the error envelope.
ConnectFail(c) ==
    /\ pc[c] = "connect"
    /\ pc' = [pc EXCEPT ![c] = "send_error"]
    /\ connected' = [connected EXCEPT ![c] = "failed"]
    /\ UNCHANGED << extractorVars, calls, received,
                    active_connections, client_id, open, inbox, c2g, c2gData, g2c,
                    response, session, is_connected, out, remoteIn, yielded,
                    disconnects, unregisterMiss, escaped, nframes, nevents >>

\* asyncio.gather starts both forwarding loops and connection_established
\* is not sent before.
SendEstablishedSkipped(c) ==
    /\ pc[c] = "send_established"
    /\ pc' = [pc EXCEPT ![c] = "gather"]
    /\ c2g' = [c2g EXCEPT ![c] = "receive"]
    /\ g2c' = [g2c EXCEPT ![c] = "next"]
    /\ UNCHANGED << extractorVars, calls, connected, received,
                    active_connections, client_id, open, inbox, c2gData, response,
                    session, is_connected, out, remoteIn, yielded, disconnects,
                    unregisterMiss, escaped, nframes, nevents >>

\* _send_json(connection_established) returns (a transport error is swallowed
\* by _send_json); asyncio.gather starts both forwarding loops.
SendEstablished(c) ==
    /\ pc[c] = "send_established"
    /\ out' = [out EXCEPT ![c] = Append(@, Envelope("connection_established", open[c]))]
    /\ pc' = [pc EXCEPT ![c] = "gather"]
    /\ c2g' = [c2g EXCEPT ![c] = "receive"]
    /\ g2c' = [g2c EXCEPT ![c] = "next"]
    /\ UNCHANGED << extractorVars, calls, connected, received,
                    active_connections, client_id, open, inbox, c2gData, response,
                    session, is_connected, remoteIn, yielded, disconnects,
                    unregisterMiss, escaped, nframes, nevents >>

\* The except block reports nothing to the client.
SendErrorSilent(c) ==
    /\ pc[c] = "send_error"
    /\ EnterFinally(c)
    /\ UNCHANGED << extractorVars, calls, connected, received, client_id, inbox, c2g, c2gData, g2c,
                    response, out, remoteIn, yielded, nframes, nevents >>

\* except: _send_json(error) returns (errors swallowed), then the finally block.
SendError(c) ==
    /\ pc[c] = "send_error"
    /\ out' = [out EXCEPT ![c] = Append(@, Envelope("error", open[c]))]
    /\ EnterFinally(c)
    /\ UNCHANGED << extractorVars, calls, connected, received,
                    client_id, inbox, c2g, c2gData, g2c, response, remoteIn,
                    yielded, nframes, nevents >>

\* asyncio.gather(..., return_exceptions=True) returns once BOTH loops have
\* returned; then the finally block.
GatherReturn(c) ==
    /\ pc[c] = "gather"
    /\ LoopDone(c2g[c])
    /\ LoopDone(g2c[c])
    /\ EnterFinally(c)
    /\ UNCHANGED << extractorVars, calls, connected, received,
                    client_id, inbox, c2g, c2gData, g2c, response, out, remoteIn,
                    yielded, nframes, nevents >>

\* session.__aexit__ returns or raises inside disconnect(); either way
\* disconnect() returns and the registry entry is deleted.
DisconnectReturn(c, aexitRaises) ==
    /\ pc[c] = "disconnect"
    /\ LET m == ManagerDisconnect(session[c], is_connected[c], aexitRaises) IN
       /\ session' = [session EXCEPT ![c] = m.session]
       /\ is_connected' = [is_connected EXCEPT ![c] = m.is_connected]
       /\ IF m.raised THEN Escape(c) ELSE Finish(c)
    /\ UNCHANGED << extractorVars, calls, connected, received,
                    client_id, inbox, c2g, c2gData, g2c, response, out, remoteIn,
                    yielded, disconnects, nframes, nevents >>

\* ------------------------------------------------------------------ client -> remote
\* Every control message that is a dict is answered by a pong.
HandleControlMessageEcho(j) ==
    IF ~j.isDict THEN "failed"
    ELSE "send_json"

\* _handle_control_message: a ping is answered by _send_json(pong), any other
\* dict is ignored; json_data.get raises AttributeError on a non-dict, which
\* the loop's except Exception catches.
HandleControlMessage(j) ==
    IF ~j.isDict THEN "failed"
    ELSE IF j.type = "ping" THEN "send_json"
    ELSE "receive"

\* The JSONDecodeError is not caught apart: it ends the loop.
ClientToGeminiStepDecodeFatal(m, hasSession) ==
    IF IsBytes(m)
    THEN IF hasSession THEN "send_audio" ELSE "failed"
    ELSE LET j == JsonLoads(m.text) IN
         IF ~j.decoded THEN "failed" ELSE HandleControlMessage(j)

\* A ping is read and dropped like any other control message.
ClientToGeminiStepNoPong(m, hasSession) ==
    IF IsBytes(m)
    THEN IF hasSession THEN "send_audio" ELSE "failed"
    ELSE "receive"

\* One iteration of the loop of _forward_client_to_gemini on the received
\* message m: where the loop is next.  send_audio raises at once without a
\* session; an unparseable text is passed over.
ClientToGeminiStep(m, hasSession) ==
    IF IsBytes(m)
    THEN IF hasSession THEN "send_audio" ELSE "failed"
    ELSE LET j == JsonLoads(m.text) IN
         IF ~j.decoded THEN "receive" ELSE HandleControlMessage(j)

\* message = await websocket.receive() returns a frame of the client.
C2GReceive(c) ==
    /\ c2g[c] = "receive"
    /\ inbox[c] # << >>
    /\ LET m == Head(inbox[c]) IN
       /\ c2g' = [c2g EXCEPT ![c] = ClientToGeminiStep(m, session[c])]
       /\ c2gData' = [c2gData EXCEPT ![c] = IF IsBytes(m) THEN m.bytes ELSE NoData]
    /\ inbox' = [inbox EXCEPT ![c] = Tail(@)]
    /\ received' = [received EXCEPT ![c] = Append(@, Head(inbox[c]))]
    /\ UNCHANGED << extractorVars, calls, connected,
                    active_connections, pc, client_id, open, g2c, response, session,
                    is_connected, out, remoteIn, yielded, disconnects,
                    unregisterMiss, escaped, nframes, nevents >>

\* websocket.receive() reports that the client has disconnected, after the
\* frames the client sent before: the loop ends.
C2GDisconnect(c) ==
    /\ c2g[c] = "receive"
    /\ inbox[c] = << >>
    /\ ~open[c]
    /\ c2g' = [c2g EXCEPT ![c] = "disconnected"]
    /\ UNCHANGED << extractorVars, calls, connected, received,
                    active_connections, pc, client_id, open, inbox, c2gData, g2c,
                    response, session, is_connected, out, remoteIn, yielded,
                    disconnects, unregisterMiss, escaped, nframes, nevents >>

\* session.send_realtime_input returns: the audio went to the remote session.
C2GSendAudioOk(c) ==
    /\ c2g[c] = "send_audio"
    /\ remoteIn' = [remoteIn EXCEPT ![c] = Append(@, c2gData[c])]
    /\ c2g' = [c2g EXCEPT ![c] = "receive"]
    /\ UNCHANGED << extractorVars, calls, connected, received,
                    active_connections, pc, client_id, open, inbox, c2gData, g2c,
                    response, session, is_connected, out, yielded, disconnects,
                    unregisterMiss, escaped, nframes, nevents >>

\* session.send_realtime_input raises and the loop goes on to the next frame.
C2GSendAudioFailContinue(c) ==
    /\ c2g[c] = "send_audio"
    /\ c2g' = [c2g EXCEPT ![c] = "receive"]
    /\ UNCHANGED << extractorVars, calls, connected, received,
                    active_connections, pc, client_id, open, inbox, c2gData, g2c,
                    response, session, is_connected, out, remoteIn, yielded,
                    disconnects, unregisterMiss, escaped, nframes, nevents >>

\* session.send_realtime_input raises: send_audio re-raises, the loop ends.
C2GSendAudioFail(c) ==
    /\ c2g[c] = "send_audio"
    /\ c2g' = [c2g EXCEPT ![c] = "failed"]
    /\ UNCHANGED << extractorVars, calls, connected, received,
                    active_connections, pc, client_id, open, inbox, c2gData, g2c,
                    response, session, is_connected, out, remoteIn, yielded,
                    disconnects, unregisterMiss, escaped, nframes, nevents >>

\* _send_json(pong) returns (a transport error is swallowed).
C2GSendPong(c) ==
    /\ c2g[c] = "send_json"
    /\ out' = [out EXCEPT ![c] = Append(@, Envelope("pong", open[c]))]
    /\ c2g' = [c2g EXCEPT ![c] = "receive"]
    /\ UNCHANGED << extractorVars, calls, connected, received,
                    active_connections, pc, client_id, open, inbox, c2gData, g2c,
                    response, session, is_connected, remoteIn, yielded, disconnects,
                    unregisterMiss, escaped, nframes, nevents >>

\* ------------------------------------------------------------------ remote -> client
AudioFrame(ev, ok) == Sent("audio", ev.data, 0, "", FALSE, FALSE, ok)

\* The two flags are taken from each other's field.
AudioMetadataSwapped(ev, ok) ==
    Sent("audio_metadata", NoData, Len(ev.data), "", ev.turn_complete, ev.interrupted, ok)

\* The audio_metadata envelope built for an audio response.
AudioMetadata(ev, ok) ==
    Sent("audio_metadata", NoData, Len(ev.data), "", ev.interrupted, ev.turn_complete, ok)

\* The text_response envelope without the event's flags.
TextResponseNoFlags(ev, ok) ==
    Sent("text_response", NoData, 0, ev.text, FALSE, FALSE, ok)

\* The text_response envelope built for a text response.
TextResponse(ev, ok) ==
    Sent("text_response", NoData, 0, ev.text, ev.interrupted, ev.turn_complete, ok)

\* Where the loop of _forward_gemini_to_client goes with a response.
ForwardStep(ev) ==
    CASE ev.type = "audio" -> "send_bytes"
      [] ev.type = "text" -> "send_text"
      [] OTHER -> "next"

\* The remote session delivers a response; receive_responses yields an audio
\* or a text event for it, or nothing (tool call, unhandled response).
\* receive_responses raises at once when there is no session.
G2CResponse(c, ev) ==
    /\ g2c[c] = "next"
    /\ Inputs < MaxInputs
    /\ nevents' = nevents + 1
    /\ IF session[c]
       THEN /\ g2c' = [g2c EXCEPT ![c] = ForwardStep(ev)]
            /\ response' = [response EXCEPT ![c] = ev]
            /\ yielded' = [yielded EXCEPT ![c] =
                              IF ev.type \in {"audio", "text"} THEN Append(@, ev) ELSE @]
       ELSE /\ g2c' = [g2c EXCEPT ![c] = "raised"]
            /\ UNCHANGED << response, yielded >>
    /\ UNCHANGED << extractorVars, calls, connected, received,
                    active_connections, pc, client_id, open, inbox, c2g, c2gData,
                    session, is_connected, out, remoteIn, disconnects,
                    unregisterMiss, escaped, nframes >>

\* session.receive() is exhausted: the loop ends.
G2CEnd(c) ==
    /\ g2c[c] = "next"
    /\ g2c' = [g2c EXCEPT ![c] = "ended"]
    /\ UNCHANGED << extractorVars, calls, connected, received,
                    active_connections, pc, client_id, open, inbox, c2g, c2gData,
                    response, session, is_connected, out, remoteIn, yielded,
                    disconnects, unregisterMiss, escaped, nframes, nevents >>

\* session.receive() raises: receive_responses re-raises, the loop's
\* except Exception logs it and the loop ends.
G2CRaise(c) ==
    /\ g2c[c] = "next"
    /\ g2c' = [g2c EXCEPT ![c] = "raised"]
    /\ UNCHANGED << extractorVars, calls, connected, received,
                    active_connections, pc, client_id, open, inbox, c2g, c2gData,
                    response, session, is_connected, out, remoteIn, yielded,
                    disconnects, unregisterMiss, escaped, nframes, nevents >>

\* websocket.send_bytes returns, or raises on a closed transport and ends the loop.
G2CSendBytes(c) ==
    /\ g2c[c] = "send_bytes"
    /\ out' = [out EXCEPT ![c] = Append(@, AudioFrame(response[c], open[c]))]
    /\ g2c' = [g2c EXCEPT ![c] = IF open[c] THEN "send_metadata" ELSE "send_failed"]
    /\ UNCHANGED << extractorVars, calls, connected, received,
                    active_connections, pc, client_id, open, inbox, c2g, c2gData,
                    response, session, is_connected, remoteIn, yielded, disconnects,
                    unregisterMiss, escaped, nframes, nevents >>

\* _send_json(audio_metadata) returns (a transport error is swallowed).
G2CSendMetadata(c) ==
    /\ g2c[c] = "send_metadata"
    /\ out' = [out EXCEPT ![c] = Append(@, AudioMetadata(response[c], open[c]))]
    /\ g2c' = [g2c EXCEPT ![c] = "next"]
    /\ UNCHANGED << extractorVars, calls, connected, received,
                    active_connections, pc, client_id, open, inbox, c2g, c2gData,
                    response, session, is_connected, remoteIn, yielded, disconnects,
                    unregisterMiss, escaped, nframes, nevents >>

\* _send_json(text_response) returns (a transport error is swallowed).
G2CSendText(c) ==
    /\ g2c[c] = "send_text"
    /\ out' = [out EXCEPT ![c] = Append(@, TextResponse(response[c], open[c]))]
    /\ g2c' = [g2c EXCEPT ![c] = "next"]
    /\ UNCHANGED << extractorVars, calls, connected, received,
                    active_connections, pc, client_id, open, inbox, c2g, c2gData,
                    response, session, is_connected, remoteIn, yielded, disconnects,
                    unregisterMiss, escaped, nframes, nevents >>

\* ------------------------------------------------------------------ client
\* The client sends a frame on its open transport.
ClientSend(c, m) ==
    /\ open[c]
    /\ Inputs < MaxInputs
    /\ nframes' = nframes + 1
    /\ inbox' = [inbox EXCEPT ![c] = Append(@, m)]
    /\ UNCHANGED << extractorVars, calls, connected, received,
                    active_connections, pc, client_id, open, c2g, c2gData, g2c,
                    response, session, is_connected, out, remoteIn, yielded,
                    disconnects, unregisterMiss, escaped, nevents >>

\* The client disconnects (or the transport fails).
ClientDisconnect(c) ==
    /\ open[c]
    /\ open' = [open EXCEPT ![c] = FALSE]
    /\ UNCHANGED << extractorVars, calls, connected, received,
                    active_connections, pc, client_id, inbox, c2g, c2gData, g2c,
                    response, session, is_connected, out, remoteIn, yielded,
                    disconnects, unregisterMiss, escaped, nframes, nevents >>

\* ------------------------------------------------------------------ specification
\* The steps the relay takes by itself once the call it awaits has returned.
RelayStep(c) ==
    \/ ConnectOk(c)
    \/ ConnectFail(c)
    \/ SendEstablished(c)
    \/ SendError(c)
    \/ GatherReturn(c)
    \/ \E r \in BOOLEAN : DisconnectReturn(c, r)
    \/ C2GReceive(c)
    \/ C2GDisconnect(c)
    \/ C2GSendAudioOk(c)
    \/ C2GSendAudioFail(c)
    \/ C2GSendPong(c)
    \/ G2CSendBytes(c)
    \/ G2CSendMetadata(c)
    \/ G2CSendText(c)

\* What the client and the remote session may do, or never do.
EnvStep(c) ==
    \/ \E id \in Ids : Accept(c, id)
    \/ \E m \in ClientFrames : ClientSend(c, m)
    \/ ClientDisconnect(c)
    \/ \E ev \in RemoteEvents : G2CResponse(c, ev)
    \/ G2CEnd(c)
    \/ G2CRaise(c)

Next == \E c \in Conns : RelayStep(c) \/ EnvStep(c)

Spec == Init /\ [][Next]_vars

\* Every call the relay awaits returns, and a ready coroutine is run; the
\* client and the remote stream are under no obligation.
FairSpec == Spec /\ \A c \in Conns : WF_vars(RelayStep(c))

TypeOK ==
    /\ DOMAIN active_connections \subseteq Ids
    /\ \A k \in DOMAIN active_connections : active_connections[k] \in Conns
    /\ Inputs <= MaxInputs

\* ------------------------------------------------------------------ observations
Registered(c) == \E k \in DOMAIN active_connections : active_connections[k] = c

NoTransportFailure(c) == \A i \in 1 .. Len(out[c]) : out[c][i].ok

IsAudioSend(e) == e.kind \in {"audio", "audio_metadata"}
IsLoopSend(e) == e.kind \in {"audio", "audio_metadata", "text_response"}
IsAudioEvent(e) == e.type = "audio"
IsPong(e) == e.kind = "pong"
IsPingFrame(m) == m = TextFrame(TextPing)

AudioSends(c) == SelectSeq(out[c], IsAudioSend)
LoopSends(c) == SelectSeq(out[c], IsLoopSend)
AudioEvents(c) == SelectSeq(yielded[c], IsAudioEvent)
Pongs(c) == Len(SelectSeq(out[c], IsPong))

\* Sends the remote -> client loop still owes for the audio event it holds.
PendingAudioSends(c) ==
    CASE g2c[c] = "send_bytes" -> 2
      [] g2c[c] = "send_metadata" -> 1
      [] OTHER -> 0

\* ------------------------------------------------------------------ claims

\* C1: the registry holds no entry for a connection whose handle_connection
\* has finished (CLOSED), whatever path it took.
C1_NoEntryForClosed ==
    \A c \in Conns : ConnState(c) = "CLOSED" => ~Registered(c)

\* Two closed connections, one after a failed connect and one whose session
\* failed to close, and an empty registry.
C1_Witness ==
    \E c, d \in Conns :
        /\ pc[c] = "done" /\ connected[c] = "failed"
        /\ pc[d] = "done" /\ session[d]
        /\ DOMAIN active_connections = {}

\* C2: disconnect() is called exactly once on every connection that reaches
\* CLOSED, and never twice on any connection.
C2_DisconnectExactlyOnce ==
    \A c \in Conns :
        /\ disconnects[c] <= 1
        /\ ConnState(c) = "CLOSED" => disconnects[c] = 1
        /\ ConnState(c) \in {"CONNECTING", "ACTIVE"} => disconnects[c] = 0

\* One connection closed after a failed connect, another after its remote
\* stream raised.
C2_Witness ==
    \E c, d \in Conns :
        /\ pc[c] = "done" /\ connected[c] = "failed" /\ disconnects[c] = 1
        /\ pc[d] = "done" /\ g2c[d] = "raised" /\ disconnects[d] = 1

\* C3: in ACTIVE state the end of either forwarding loop leads to CLOSED,
\* whether or not the client or the remote session does anything more.
C3_LoopEndLeadsToClosed ==
    \A c \in Conns :
        (pc[c] = "gather" /\ (LoopDone(c2g[c]) \/ LoopDone(g2c[c]))) ~> (pc[c] = "done")

\* C4: with no transport failure, the audio events yielded by the remote
\* session are sent in order as a binary frame and then an audio_metadata
\* envelope each, the envelope carrying the payload's length and the
\* event's flags; the loop sends nothing between the two.
C4_AudioEventsForwardedInOrder ==
    \A c \in Conns :
        NoTransportFailure(c) =>
            LET a == AudioSends(c)
                evs == AudioEvents(c)
                g == LoopSends(c)
            IN  /\ Len(a) + PendingAudioSends(c) = 2 * Len(evs)
                /\ \A i \in 1 .. Len(evs) :
                       /\ 2 * i - 1 <= Len(a) =>
                              /\ a[2 * i - 1].kind = "audio"
                              /\ a[2 * i - 1].data = evs[i].data
                       /\ 2 * i <= Len(a) =>
                              /\ a[2 * i].kind = "audio_metadata"
                              /\ a[2 * i].bytes = Len(evs[i].data)
                              /\ a[2 * i].interrupted = evs[i].interrupted
                              /\ a[2 * i].turn_complete = evs[i].turn_complete
                /\ \A i \in 1 .. Len(g) :
                       (g[i].kind = "audio" /\ i < Len(g)) => g[i + 1].kind = "audio_metadata"

\* Two different audio events have been forwarded in full.
C4_Witness ==
    \E c \in Conns :
        /\ NoTransportFailure(c)
        /\ Len(AudioEvents(c)) = 2
        /\ AudioEvents(c)[1] # AudioEvents(c)[2]
        /\ Len(AudioSends(c)) = 4

\* C5: on the client's transport every audio frame is immediately followed
\* by its audio_metadata envelope, whatever the other loop sends.
C5_AudioThenMetadataOnWire ==
    \A c \in Conns :
        \A i \in 1 .. Len(out[c]) :
            (out[c][i].kind = "audio" /\ out[c][i].ok) =>
                IF i < Len(out[c])
                THEN out[c][i + 1].kind = "audio_metadata"
                ELSE g2c[c] = "send_metadata"

PingsRead(c) == Len(SelectSeq(received[c], IsPingFrame))
PingsSent(c) == PingsRead(c) + Len(SelectSeq(inbox[c], IsPingFrame))

\* C6 (as claimed, in the case it names): the pings a client sent on a
\* connection whose connect() failed have each been answered by a pong when
\* the connection is CLOSED.
C6_PingAnsweredWhenConnectFailed ==
    \A c \in Conns :
        (pc[c] = "done" /\ connected[c] = "failed") => Pongs(c) = PingsSent(c)

\* The pongs sent or being sent are as many as the pings read by the loop.
C6_OnePongPerPingRead(c) ==
    /\ Pongs(c) + (IF c2g[c] = "send_json" THEN 1 ELSE 0) = PingsRead(c)
    /\ connected[c] = "failed" => Pongs(c) = 0

\* The steps that take up and answer a ping call nothing on the remote session.
C6_PongWithoutRemote(c) ==
    (c2g'[c] # c2g[c] /\ (c2g[c] = "send_json" \/ c2g'[c] = "send_json")) =>
        /\ remoteIn' = remoteIn
        /\ session' = session
        /\ is_connected' = is_connected
        /\ disconnects' = disconnects
        /\ nevents' = nevents

\* C6 (amended): every ping the client -> remote loop reads is answered by
\* exactly one pong send, made without any call on the remote session; on a
\* connection whose connect() failed no ping is read and no pong is sent.
C6_ReadPingAnswered ==
    /\ [](\A c \in Conns : C6_OnePongPerPingRead(c))
    /\ [][\A c \in Conns : C6_PongWithoutRemote(c)]_vars

\* Two pings read and answered on an open transport.
C6_Witness ==
    \E c \in Conns :
        /\ PingsRead(c) = 2
        /\ Pongs(c) = 2
        /\ NoTransportFailure(c)

\* C7: after connect() fails the client is sent one error envelope and
\* nothing else, no forwarding loop is started, the handler goes from
\* CONNECTING to CLOSED and the connection is no longer registered.
C7_ConnectFailure ==
    \A c \in Conns :
        connected[c] = "failed" =>
            /\ ConnState(c) \in {"CONNECTING", "CLOSED"}
            /\ c2g[c] = "idle"
            /\ g2c[c] = "idle"
            /\ received[c] = << >>
            /\ ConnState(c) = "CONNECTING" => out[c] = << >>
            /\ ConnState(c) = "CLOSED" =>
                   /\ Len(out[c]) = 1
                   /\ out[c][1].kind = "error"
                   /\ ~Registered(c)

\* A connection closed after a failed connect whose client got the error
\* envelope, its id gone from the registry.
C7_Witness ==
    \E c \in Conns :
        /\ pc[c] = "done"
        /\ connected[c] = "failed"
        /\ out[c] = << Envelope("error", TRUE) >>
        /\ client_id[c] \notin DOMAIN active_connections

\* The client -> remote loop of c takes an unparseable text frame in this step.
C8_ReadsUnparseable(c) ==
    /\ c2g[c] = "receive"
    /\ inbox[c] # << >>
    /\ Head(inbox[c]) = TextFrame(TextBad)
    /\ received'[c] = Append(received[c], Head(inbox[c]))

\* C8: an unparseable text frame read on an ACTIVE connection changes
\* nothing: the connection stays ACTIVE, the loop goes on to its next
\* receive with the frames behind it intact, nothing is sent to the client
\* or to the remote session.
C8_UnparseableTextDiscarded ==
    [][\A c \in Conns :
          C8_ReadsUnparseable(c) =>
              /\ ConnState(c) = "ACTIVE"
              /\ ConnState(c)' = "ACTIVE"
              /\ c2g'[c] = "receive"
              /\ inbox'[c] = Tail(inbox[c])
              /\ UNCHANGED << out, remoteIn, g2c, session, is_connected,
                              active_connections, disconnects, open >>]_vars

\* An unparseable text frame was read, and the ping sent after it was
\* answered.
C8_Witness ==
    \E c \in Conns :
        /\ received[c] = << TextFrame(TextBad), TextFrame(TextPing) >>
        /\ Pongs(c) = 1
        /\ ConnState(c) = "ACTIVE"
        /\ \A i \in 1 .. Len(out[c]) : out[c][i].kind # "error"

\* C9: registering a connection under an id the registry already holds
\* leaves the existing entry as it is.
C9_DuplicateRegisterKeepsEntry ==
    [][\A c \in Conns :
          (pc[c] = "new" /\ pc'[c] # "new" /\ client_id'[c] \in DOMAIN active_connections) =>
              active_connections'[client_id'[c]] = active_connections[client_id'[c]]]_vars

\* C10: unregistering is idempotent; on an absent id it raises nothing and
\* changes nothing; no other entry is touched; no handler's teardown raised.
C10_UnregisterIdempotent ==
    /\ \A id \in Ids :
           LET once == Unregister(active_connections, id)
               twice == Unregister(once.registry, id)
           IN  /\ ~once.raised
               /\ ~twice.raised
               /\ twice.registry = once.registry
               /\ id \notin DOMAIN once.registry
               /\ id \notin DOMAIN active_connections => once.registry = active_connections
               /\ \A k \in DOMAIN active_connections \ {id} :
                      /\ k \in DOMAIN once.registry
                      /\ once.registry[k] = active_connections[k]
    /\ \A c \in Conns : ~escaped[c]

\* A handler's teardown found its id already removed by another handler's.
C10_Witness ==
    \E c \in Conns : pc[c] = "done" /\ unregisterMiss[c]

HasError(c) == \E i \in 1 .. Len(out[c]) : out[c][i].kind = "error"

\* C11: when the remote session's event sequence raised on an ACTIVE
\* connection, an error envelope has been sent to the client (or its sending
\* attempted) by the time teardown begins.
C11_StreamErrorReported ==
    \A c \in Conns :
        (g2c[c] = "raised" /\ ConnState(c) \in {"CLOSING", "CLOSED"}) => HasError(c)

C12_Rank(st) ==
    CASE st = "NONE" -> 0
      [] st = "CONNECTING" -> 1
      [] st = "ACTIVE" -> 2
      [] st = "CLOSING" -> 3
      [] OTHER -> 4

\* A connection's state never moves back.
C12_Forward(c) == C12_Rank(ConnState(c)') >= C12_Rank(ConnState(c))

\* The step that ends the wait for disconnect() ends the handler normally
\* with the connection unregistered, whether the session's close raised or not.
C12_TeardownCompletes(c) ==
    (pc[c] = "disconnect" /\ pc'[c] # "disconnect") =>
        /\ ConnState(c)' = "CLOSED"
        /\ ~escaped'[c]
        /\ ~Registered(c)'

\* C12: the connection state only moves forward through CONNECTING, ACTIVE,
\* CLOSING, CLOSED and CLOSED is final; a failure of the session's close
\* inside disconnect() is absorbed: the registry entry is removed and the
\* connection reaches CLOSED from CLOSING in every case.
C12_ForwardOnlyAndTeardownNeverBlocks ==
    /\ [][\A c \in Conns : C12_Forward(c) /\ C12_TeardownCompletes(c)]_vars
    /\ \A c \in Conns : (ConnState(c) = "CLOSING") ~> (ConnState(c) = "CLOSED")

\* A connection that was ACTIVE is CLOSED and unregistered although the
\* close of its session raised.
C12_Witness ==
    \E c \in Conns :
        /\ ConnState(c) = "CLOSED"
        /\ connected[c] = "ok"
        /\ session[c]
        /\ ~escaped[c]
        /\ ~Registered(c)

\* C13: a CLOSED connection holds no remote session: session is None and
\* is_connected is False.
C13_ClosedHoldsNoSession ==
    \A c \in Conns :
        ConnState(c) = "CLOSED" => (~session[c] /\ ~is_connected[c])

\* The context of a connection: its handler, loops, transport and manager.
Context(c) ==
    << pc[c], c2g[c], c2gData[c], g2c[c], response[c], session[c], is_connected[c],
       out[c], remoteIn[c], yielded[c], inbox[c], open[c], disconnects[c] >>

\* C14: no failure leaves a connection's handler (connect, either loop, a
\* send, disconnect: each is absorbed and handle_connection returns
\* normally), and a step of one connection leaves every other connection's
\* state and context as they were.
C14_FailuresAbsorbed ==
    /\ [](\A c \in Conns : ~escaped[c])
    /\ [][\A c, d \in Conns :
             (c # d /\ Context(c)' # Context(c)) =>
                 (Context(d)' = Context(d) /\ ConnState(d)' = ConnState(d))]_vars

\* A connection has returned normally after a failed send, an error of the
\* remote stream and a failed close of its session, while another connection
\* is ACTIVE.
C14_Witness ==
    \E c, d \in Conns :
        /\ c # d
        /\ pc[c] = "done"
        /\ ~NoTransportFailure(c)
        /\ g2c[c] = "raised"
        /\ session[c]
        /\ ~escaped[c]
        /\ ConnState(d) = "ACTIVE"

\* ------------------------------------------------------------------ manager, called directly
\* send_audio returns silently when there is no session.
SendAudioSilent(hasSession, remoteRaises) ==
    [raised |-> hasSession /\ remoteRaises, sent |-> hasSession /\ ~remoteRaises]

\* send_audio: RuntimeError without a session, before anything is sent; an
\* error of session.send_realtime_input is re-raised.
SendAudio(hasSession, remoteRaises) ==
    [raised |-> ~hasSession \/ remoteRaises, sent |-> hasSession /\ ~remoteRaises]

\* receive_responses: RuntimeError without a session, before anything is
\* received; an error of session.receive() is re-raised.
ReceiveResponses(hasSession, remoteRaises) ==
    [raised |-> ~hasSession \/ remoteRaises, yields |-> hasSession /\ ~remoteRaises]

Call(c, op, raised) == [manager |-> c, op |-> op, raised |-> raised]

\* await manager.connect()
MgrConnect(c, ok) ==
    /\ Len(calls) < MaxInputs
    /\ calls' = Append(calls, Call(c, "connect", ~ok))
    /\ session' = [session EXCEPT ![c] = IF ok THEN TRUE ELSE @]
    /\ is_connected' = [is_connected EXCEPT ![c] = IF ok THEN TRUE ELSE @]
    /\ connected' = [connected EXCEPT ![c] = IF ok THEN "ok" ELSE "failed"]
    /\ UNCHANGED << extractorVars, active_connections, pc, client_id, open, inbox, c2g, c2gData,
                    g2c, response, out, remoteIn, yielded, disconnects,
                    unregisterMiss, escaped, received, nframes, nevents >>

\* await manager.disconnect()
MgrDisconnect(c, aexitRaises) ==
    /\ Len(calls) < MaxInputs
    /\ LET m == ManagerDisconnect(session[c], is_connected[c], aexitRaises) IN
       /\ calls' = Append(calls, Call(c, "disconnect", m.raised))
       /\ session' = [session EXCEPT ![c] = m.session]
       /\ is_connected' = [is_connected EXCEPT ![c] = m.is_connected]
    /\ disconnects' = [disconnects EXCEPT ![c] = @ + 1]
    /\ UNCHANGED << extractorVars, active_connections, pc, client_id, open, inbox, c2g, c2gData,
                    g2c, response, out, remoteIn, yielded, unregisterMiss, escaped,
                    connected, received, nframes, nevents >>

\* await manager.send_audio(d)
MgrSendAudio(c, d, remoteRaises) ==
    /\ Len(calls) < MaxInputs
    /\ LET r == SendAudio(session[c], remoteRaises) IN
       /\ calls' = Append(calls, Call(c, "send_audio", r.raised))
       /\ remoteIn' = [remoteIn EXCEPT ![c] = IF r.sent THEN Append(@, d) ELSE @]
    /\ UNCHANGED << extractorVars, active_connections, pc, client_id, open, inbox, c2g, c2gData,
                    g2c, response, session, is_connected, out, yielded, disconnects,
                    unregisterMiss, escaped, connected, received, nframes, nevents >>

\* The first step of iterating manager.receive_responses(), the remote
\* session delivering the response ev or raising.
MgrReceive(c, ev, remoteRaises) ==
    /\ Len(calls) < MaxInputs
    /\ LET r == ReceiveResponses(session[c], remoteRaises) IN
       /\ calls' = Append(calls, Call(c, "receive_responses", r.raised))
       /\ yielded' = [yielded EXCEPT ![c] =
                         IF r.yields /\ ev.type \in {"audio", "text"}
                         THEN Append(@, ev) ELSE @]
    /\ UNCHANGED << extractorVars, active_connections, pc, client_id, open, inbox, c2g, c2gData,
                    g2c, response, session, is_connected, out, remoteIn, disconnects,
                    unregisterMiss, escaped, connected, received, nframes, nevents >>

MgrNext ==
    \E c \in Conns :
        \/ \E ok \in BOOLEAN : MgrConnect(c, ok)
        \/ \E r \in BOOLEAN : MgrDisconnect(c, r)
        \/ \E d \in AudioPayloads, r \in BOOLEAN : MgrSendAudio(c, d, r)
        \/ \E ev \in RemoteEvents, r \in BOOLEAN : MgrReceive(c, ev, r)

\* GeminiAudioManager objects under any sequence of calls of their methods.
ManagerSpec == Init /\ [][MgrNext]_vars

\* The step is a call of op on the manager c.
C15_Calls(c, op) ==
    /\ Len(calls') = Len(calls) + 1
    /\ calls'[Len(calls')].manager = c
    /\ calls'[Len(calls')].op = op

\* C15: send_audio, and receive_responses, on a manager without a session
\* raise an error, send nothing to the remote session and leave session and
\* is_connected as they were.
C15_NoSessionCallFails ==
    [][\A c \in Conns :
          (~session[c] /\ (C15_Calls(c, "send_audio") \/ C15_Calls(c, "receive_responses"))) =>
              /\ calls'[Len(calls')].raised
              /\ UNCHANGED << remoteIn, yielded, session, is_connected >>]_vars

\* send_audio has failed on a manager that was connected and then
\* disconnected with success.
C15_Witness ==
    \E c \in Conns :
        /\ calls = << Call(c, "connect", FALSE), Call(c, "disconnect", FALSE),
                      Call(c, "send_audio", TRUE) >>
        /\ ~session[c]
        /\ remoteIn[c] = << >>

\* The frames owed for a sequence of yielded events, in order.
RECURSIVE C16_Frames(_)
C16_Frames(evs) ==
    IF evs = << >> THEN << >>
    ELSE LET ev == Head(evs) IN
         (IF ev.type = "audio"
          THEN << [kind |-> "audio", data |-> ev.data, bytes |-> 0, text |-> "",
                   interrupted |-> FALSE, turn_complete |-> FALSE, ok |-> TRUE],
                  [kind |-> "audio_metadata", data |-> NoData, bytes |-> Len(ev.data),
                   text |-> "", interrupted |-> ev.interrupted,
                   turn_complete |-> ev.turn_complete, ok |-> TRUE] >>
          ELSE << [kind |-> "text_response", data |-> NoData, bytes |-> 0,
                   text |-> ev.text, interrupted |-> ev.interrupted,
                   turn_complete |-> ev.turn_complete, ok |-> TRUE] >>)
         \o C16_Frames(Tail(evs))

\* Sends the remote -> client loop still owes for the event it holds.
C16_Pending(c) ==
    CASE g2c[c] = "send_bytes" -> 2
      [] g2c[c] \in {"send_metadata", "send_text"} -> 1
      [] OTHER -> 0

\* C16: with no transport failure, the frames sent by the remote -> client
\* loop are, in the order of the yielded events, a binary frame and an
\* audio_metadata envelope per audio event and a text_response envelope with
\* the text and flags per text event, nothing else and nothing missing; a
\* response of any other shape sends nothing and the loop goes on.
C16_EventsForwardedInOrder ==
    /\ [](\A c \in Conns :
             NoTransportFailure(c) =>
                 LET f == C16_Frames(yielded[c]) IN
                     /\ C16_Pending(c) <= Len(f)
                     /\ LoopSends(c) = SubSeq(f, 1, Len(f) - C16_Pending(c)))
    /\ [][\A c \in Conns :
             (nevents' # nevents /\ yielded' = yielded /\ g2c[c] = "next" /\ session[c]) =>
                 (g2c'[c] = "next" /\ out'[c] = out[c])]_vars

\* An audio event and then a text event have been forwarded in full.
C16_Witness ==
    \E c \in Conns :
        /\ NoTransportFailure(c)
        /\ Len(yielded[c]) = 2
        /\ yielded[c][1].type = "audio"
        /\ yielded[c][2].type = "text"
        /\ Len(LoopSends(c)) = 3
        /\ g2c[c] = "next"

\* The payloads of the binary frames among the frames fs, in order.
RECURSIVE C17_Payloads(_)
C17_Payloads(fs) ==
    IF fs = << >> THEN << >>
    ELSE (IF IsBytes(Head(fs)) THEN << Head(fs).bytes >> ELSE << >>)
         \o C17_Payloads(Tail(fs))

\* The last frame read was binary and its send_audio has not returned
\* (it is in progress, or it raised and ended the loop).
C17_LastNotSent(c) ==
    /\ received[c] # << >>
    /\ IsBytes(received[c][Len(received[c])])
    /\ c2g[c] \in {"send_audio", "failed"}

\* C17: the payloads passed to the remote session are those of the binary
\* frames read from the client, unchanged, once each and in order, up to the
\* one whose send_audio is in progress or failed; a failed send_audio ends
\* the loop, a disconnect ends it, and an ended loop reads and forwards no more.
C17_BinaryFramesForwardedInOrder ==
    /\ [](\A c \in Conns :
             LET b == C17_Payloads(received[c]) IN
                 /\ remoteIn[c] = IF C17_LastNotSent(c) THEN SubSeq(b, 1, Len(b) - 1) ELSE b
                 /\ (c2g[c] = "send_audio") => (c2gData[c] = b[Len(b)]))
    /\ [][\A c \in Conns :
             /\ LoopDone(c2g[c]) =>
                    /\ c2g'[c] = c2g[c]
                    /\ received'[c] = received[c]
                    /\ remoteIn'[c] = remoteIn[c]
             /\ (c2g[c] = "receive" /\ inbox[c] = << >> /\ ~open[c] /\ c2g'[c] # c2g[c]) =>
                    (c2g'[c] = "disconnected" /\ remoteIn'[c] = remoteIn[c])]_vars

\* Two different binary frames have reached the remote session in the
\* order the client sent them.
C17_Witness ==
    \E c \in Conns :
        /\ Len(remoteIn[c]) = 2
        /\ remoteIn[c][1] # remoteIn[c][2]
        /\ remoteIn[c] = C17_Payloads(received[c])
        /\ c2g[c] = "receive"

\* C18: a failed send of an envelope (audio_metadata, text_response) on the
\* client's transport ends the remote -> client loop, as a failed send_bytes does.
C18_FailedEnvelopeSendEndsLoop ==
    [][\A c \in Conns :
          (g2c[c] \in {"send_bytes", "send_metadata", "send_text"} /\ ~open[c]
              /\ g2c'[c] # g2c[c]) => LoopDone(g2c'[c])]_vars

\* C19: a text frame whose JSON value is not an object is discarded and
\* the client -> remote loop goes on reading.
C19_NonObjectJsonDiscarded ==
    [][\A c \in Conns :
          (c2g[c] = "receive" /\ inbox[c] # << >> /\ received'[c] # received[c]
              /\ Head(inbox[c]) = TextFrame(TextList)) =>
                  c2g'[c] = "receive"]_vars

\* The step reads the control message t from the client of c.
C20_Reads(c, t) ==
    /\ c2g[c] = "receive"
    /\ inbox[c] # << >>
    /\ Head(inbox[c]) = TextFrame(t)
    /\ received'[c] = Append(received[c], TextFrame(t))

\* C20: reading a control message that is an object whose type is not ping,
\* or that has no type, sends nothing to the client or to the remote
\* session and leaves the loop, the connection's state, the registry and the
\* remote session as they were.
C20_OtherControlMessageIsNoOp ==
    [][\A c \in Conns :
          (C20_Reads(c, TextOther) \/ C20_Reads(c, TextNoType)) =>
              /\ c2g'[c] = "receive"
              /\ ConnState(c)' = ConnState(c)
              /\ UNCHANGED << out, remoteIn, yielded, session, is_connected,
                              active_connections, pc, g2c >>]_vars

\* Both kinds of message have been read on an ACTIVE connection on which
\* only connection_established was ever sent.
C20_Witness ==
    \E c \in Conns :
        /\ received[c] = << TextFrame(TextOther), TextFrame(TextNoType) >>
        /\ ConnState(c) = "ACTIVE"
        /\ c2g[c] = "receive"
        /\ Len(out[c]) = 1
        /\ out[c][1].kind = "connection_established"
        /\ remoteIn[c] = << >>

\* The registry entry under the id k: the transport it maps to, or none.
EntryOf(reg, k) == IF k \in DOMAIN reg THEN reg[k] ELSE 0

\* The connection is live: accepted and its handler has not returned.
Live(c) == pc[c] \notin {"new", "done"}

\* The step is a step of the connection c.
C21_Steps(c) == Context(c)' # Context(c) \/ client_id'[c] # client_id[c]

\* C21: a step of one connection (accept, connect, forwarding, error,
\* teardown) leaves the registry entry, the manager, the remote session's
\* traffic and the state of every live connection with another id as they
\* were: each connection has a manager of its own.
C21_DistinctIdsIsolated ==
    [][\A c, d \in Conns :
          (c # d /\ C21_Steps(c) /\ Live(d) /\ client_id'[c] # client_id[d]) =>
              /\ EntryOf(active_connections', client_id[d])
                     = EntryOf(active_connections, client_id[d])
              /\ session'[d] = session[d]
              /\ is_connected'[d] = is_connected[d]
              /\ remoteIn'[d] = remoteIn[d]
              /\ yielded'[d] = yielded[d]
              /\ disconnects'[d] = disconnects[d]
              /\ ConnState(d)' = ConnState(d)]_vars

\* A connection accepted while an earlier one with another id was live has
\* gone through its whole life, and the earlier one is still ACTIVE and
\* registered with its own transport.
C21_Witness ==
    \E c, d \in Conns :
        /\ d < c
        /\ client_id[c] # client_id[d]
        /\ pc[c] = "done"
        /\ ConnState(d) = "ACTIVE"
        /\ EntryOf(active_connections, client_id[d]) = d
        /\ EntryOf(active_connections, client_id[c]) = 0
        /\ session[d]

IsEstablished(e) == e.kind = "connection_established"

\* C22: connection_established is sent at most once, only after connect()
\* has succeeded, and it is the first thing sent: every audio frame,
\* audio_metadata, text_response and pong comes after it (and one that
\* reached the client comes after a connection_established that reached it);
\* the forwarding loops are started only after it has been sent.
C22_EstablishedFirstAndOnce ==
    \A c \in Conns :
        LET n == Len(SelectSeq(out[c], IsEstablished)) IN
            /\ n <= 1
            /\ n = 1 => (connected[c] = "ok" /\ IsEstablished(out[c][1]))
            /\ \A i \in 1 .. Len(out[c]) :
                   (IsLoopSend(out[c][i]) \/ IsPong(out[c][i])) =>
                       /\ i > 1
                       /\ IsEstablished(out[c][1])
                       /\ out[c][i].ok => out[c][1].ok
            /\ (c2g[c] # "idle" \/ g2c[c] # "idle") => n = 1
            /\ pc[c] \in {"new", "connect", "send_established"} =>
                   (out[c] = << >> /\ c2g[c] = "idle" /\ g2c[c] = "idle")

\* connection_established reached the client, and a pong and an audio frame
\* were sent after it.
C22_Witness ==
    \E c \in Conns :
        /\ Len(out[c]) >= 3
        /\ IsEstablished(out[c][1])
        /\ out[c][1].ok
        /\ \E i, j \in 2 .. Len(out[c]) : IsPong(out[c][i]) /\ out[c][j].kind = "audio"

\* C23: the teardown of a connection leaves in the registry the entry that
\* a newer connection has registered under the same id.
C23_TeardownRemovesOwnEntryOnly ==
    [][\A c, d \in Conns :
          (c # d /\ pc[c] # "done" /\ pc'[c] = "done"
              /\ ConnState(d) \in {"CONNECTING", "ACTIVE"}
              /\ client_id[d] = client_id[c]
              /\ EntryOf(active_connections, client_id[d]) = d) =>
                  EntryOf(active_connections', client_id[d]) = d]_vars

\* ------------------------------------------------------------------ document extraction
None == "None"

SUPPORTED_FORMATS == {"pdf", "xps", "epub", "mobi", "fb2", "cbz"}

\* File contents: a PDF with text, a PDF without text, a damaged PDF, a
\* FictionBook with text, and plain text.
Contents == {"pdf_text", "pdf_blank", "pdf_broken", "fb2_text", "plain"}

\* Filenames of uploads; an upload may carry no filename.
Filenames == {"book.fb2", "notes.txt", None}

UploadedFiles == [content : Contents, filename : Filenames]

Batches == UNION {[1 .. n -> UploadedFiles] : n \in 0 .. MaxFiles}

\* filetype.guess(content).mime, by the content's magic bytes.
GuessMime(content) ==
    IF content \in {"pdf_text", "pdf_blank", "pdf_broken"} THEN "application/pdf" ELSE None

\* filename.lower().split('.')[-1] if '.' in filename else ''
Extension(filename) ==
    CASE filename = "book.fb2" -> "fb2"
      [] filename = "notes.txt" -> "txt"
      [] OTHER -> ""

\* detect_file_format: by content, then by extension, else 'unknown'; the
\* test '.' in filename raises on a missing filename, in the try block and
\* again in the except block.
DetectFileFormat(content, filename) ==
    IF GuessMime(content) = "application/pdf" THEN [raised |-> FALSE, format |-> "pdf"]
    ELSE IF filename = None THEN [raised |-> TRUE, format |-> None]
    ELSE IF Extension(filename) \in SUPPORTED_FORMATS
         THEN [raised |-> FALSE, format |-> Extension(filename)]
    ELSE [raised |-> FALSE, format |-> "unknown"]

\* fitz.open(stream=content, filetype=format) and the text of its pages after
\* clean_text; fitz.open raises on content that is not of the format.
FitzOpen(content, format) ==
    CASE content = "pdf_text" /\ format = "pdf" ->
             [raised |-> FALSE, pages |-> 2, text |-> "hello world"]
      [] content = "pdf_blank" /\ format = "pdf" ->
             [raised |-> FALSE, pages |-> 1, text |-> ""]
      [] content = "fb2_text" /\ format = "fb2" ->
             [raised |-> FALSE, pages |-> 1, text |-> "chapter one"]
      [] OTHER -> [raised |-> TRUE, pages |-> 0, text |-> ""]

FileSize(content) == IF content = "plain" THEN 5 ELSE 9

Document(filename, text, error, format, pages, size) ==
    [filename |-> filename, text |-> text, error |-> error, format |-> format,
     pages |-> pages, file_size |-> size]

\* extract_text_from_file: never raises for a bytes content.
ExtractTextFromFile(content, filename) ==
    LET d == DetectFileFormat(content, filename)
        o == FitzOpen(content, d.format)
        size == FileSize(content)
    IN  IF d.raised THEN Document(filename, None, "extraction_failed", None, None, size)
        ELSE IF d.format = "unknown"
             THEN Document(filename, None, "unsupported_format", "unknown", None, size)
        ELSE IF o.raised
             THEN Document(filename, None, "extraction_failed", d.format, None, size)
        ELSE IF o.text = ""
             THEN Document(filename, None, "no_readable_text", d.format, o.pages, size)
        ELSE Document(filename, o.text, None, d.format, o.pages, size)

\* formats_processed[k] = formats_processed.get(k, 0) + 1
Tally(counts, k) ==
    [x \in DOMAIN counts \cup {k} |->
        IF x = k THEN (IF k \in DOMAIN counts THEN counts[k] ELSE 0) + 1 ELSE counts[x]]

\* A result without a format is left out of the per-format counts.
UpdateSummaryKnownFormats(sm, result) ==
    [total |-> sm.total,
     successful |-> sm.successful + (IF result.error = None THEN 1 ELSE 0),
     failed |-> sm.failed + (IF result.error = None THEN 0 ELSE 1),
     formats_processed |->
         IF result.format = None THEN sm.formats_processed
         ELSE Tally(sm.formats_processed, result.format)]

\* The summary after one more result: lines 162-169.
UpdateSummary(sm, result) ==
    [total |-> sm.total,
     successful |-> sm.successful + (IF result.error = None THEN 1 ELSE 0),
     failed |-> sm.failed + (IF result.error = None THEN 0 ELSE 1),
     formats_processed |->
         Tally(sm.formats_processed,
               IF result.format = None THEN "unknown" ELSE result.format)]

relayVars == << active_connections, pc, client_id, open, inbox, c2g, c2gData, g2c,
                response, session, is_connected, out, remoteIn, yielded,
                disconnects, unregisterMiss, escaped, connected, received,
                nframes, nevents, calls >>

\* One iteration of the loop of process_multiple_files.
ProcessFile ==
    /\ returned.none
    /\ Len(documents) < Len(files)
    /\ LET f == files[Len(documents) + 1]
           result == ExtractTextFromFile(f.content, f.filename)
       IN  /\ documents' = Append(documents, result)
           /\ summary' = UpdateSummary(summary, result)
    /\ UNCHANGED << files, returned, relayVars >>

\* The loop is over: process_multiple_files returns.
ReturnBatch ==
    /\ returned.none
    /\ Len(documents) = Len(files)
    /\ returned' = [success |-> summary.failed = 0, documents |-> documents,
                    summary |-> summary, none |-> FALSE]
    /\ UNCHANGED << files, documents, summary, relayVars >>

ExtractorNext == ProcessFile \/ ReturnBatch

\* process_multiple_files called on any batch of uploads.
ExtractorInit ==
    /\ HandlerInit
    /\ files \in Batches
    /\ documents = << >>
    /\ summary = NewSummary(files)
    /\ returned = NoResult

ExtractorSpec == ExtractorInit /\ [][ExtractorNext]_vars

\* The number of documents of s without an error.
RECURSIVE C24_Successes(_)
C24_Successes(s) ==
    IF s = << >> THEN 0
    ELSE (IF Head(s).error = None THEN 1 ELSE 0) + C24_Successes(Tail(s))

RECURSIVE C24_Sum(_)
C24_Sum(counts) ==
    IF DOMAIN counts = {} THEN 0
    ELSE LET k == CHOOSE x \in DOMAIN counts : TRUE IN
         counts[k] + C24_Sum([x \in DOMAIN counts \ {k} |-> counts[x]])

\* The upload can be extracted: its format is found and it holds text.
C24_Extractable(f) ==
    \/ f.content = "pdf_text"
    \/ f.content = "fb2_text" /\ f.filename = "book.fb2"

\* C24: the value returned for a batch has one document per file, in the
\* order of the files, each with the outcome of its own file whatever
\* happened to the others; total = number of files = successful + failed,
\* the per-format counts sum to total, successful is the number of
\* documents without an error, and success is true exactly when failed = 0.
C24_BatchSummaryConsistent ==
    ~returned.none =>
        LET docs == returned.documents
            sm == returned.summary
        IN  /\ Len(docs) = Len(files)
            /\ \A i \in 1 .. Len(files) :
                   /\ docs[i].filename = files[i].filename
                   /\ docs[i].file_size = FileSize(files[i].content)
                   /\ (docs[i].error = None) <=> C24_Extractable(files[i])
            /\ sm.total = Len(files)
            /\ sm.total = sm.successful + sm.failed
            /\ C24_Sum(sm.formats_processed) = sm.total
            /\ sm.successful = C24_Successes(docs)
            /\ returned.success <=> (sm.failed = 0)

\* A batch of three files has been processed: the first has no filename and
\* fails, the second has an unsupported format, the third is extracted.
C24_Witness ==
    /\ ~returned.none
    /\ Len(files) = 3
    /\ returned.documents[1].format = None
    /\ returned.documents[2].format = "unknown"
    /\ returned.documents[3].error = None
    /\ returned.summary.successful = 1
    /\ returned.summary.failed = 2
    /\ ~returned.success

====
